---------------------------- MODULE Spec2Model ----------------------------
(***************************************************************************)
(* A model of kma_grid.rs: the conversion between geographic coordinates   *)
(* (longitude, latitude in degrees) and the cells of the KMA forecast grid *)
(* (Lambert conformal conic projection), KmaGrid::from_gcs and             *)
(* KmaGrid::to_gcs, with the constants of LccConstants::get_constants.     *)
(*                                                                         *)
(* Numbers.  The code computes in f64.  The model computes in decimal      *)
(* fixed point, every f64 operation being the exact operation followed by  *)
(* rounding to the nearest unit of its result (halves away from zero):     *)
(*    degrees            in units of 10^-6 degree   (Deg6)                 *)
(*    radians            in units of 10^-8 radian   (Rad8)                 *)
(*    pure numbers       in units of 10^-8          (Unit8)                *)
(*    grid lengths       in units of 10^-4 cell     (Cell4)                *)
(* Products are formed limb by limb (base 10^4), so that no intermediate   *)
(* value leaves the 32-bit integers of the model checker.  An f64 that may *)
(* be NaN is a record [nan, v].  The calls into the floating-point library *)
(* (tan, powf, sin, cos, atan, atan2) are tabulated: each table holds the  *)
(* f64 value of the library expression at the arguments the model can      *)
(* reach, rounded to the unit of the result.                               *)
(***************************************************************************)
EXTENDS Integers, Sequences, FiniteSets, TLC

-----------------------------------------------------------------------------
(* Fixed-point arithmetic *)

Base == 10^4

Abs(a) == IF a < 0 THEN -a ELSE a

Sgn(a) == IF a < 0 THEN -1 ELSE 1

\* The limbs (base 10^4, least significant first) of a natural number < 2^31.
Limbs(a) == << a % Base, (a \div Base) % Base, a \div (Base * Base) >>

\* Limb i (from 0) of a limb sequence, 0 beyond its length.
LimbAt(l, i) == IF i + 1 \in DOMAIN l THEN l[i + 1] ELSE 0

\* Column i of the schoolbook product of two limb sequences.
Column(al, bl, i) ==
    LimbAt(al, 0) * LimbAt(bl, i)
      + LimbAt(al, 1) * LimbAt(bl, i - 1)
      + LimbAt(al, 2) * LimbAt(bl, i - 2)

\* The carry out of column i of the product: floor((a*b mod Base^(i+1)) / Base^(i+1))
\* with the lower columns' carries taken in.
RECURSIVE CarryOut(_, _, _)
CarryOut(al, bl, i) ==
    IF i < 0 THEN 0
    ELSE (Column(al, bl, i) + CarryOut(al, bl, i - 1)) \div Base

\* floor(a*b / Base^j), the columns from j up (the result must fit 31 bits).
RECURSIVE HighPart(_, _, _, _)
HighPart(al, bl, j, top) ==
    IF j > top THEN 0
    ELSE Column(al, bl, j) + Base * HighPart(al, bl, j + 1, top)

\* Digit j (base 10^4) of the product.
ProductLimb(al, bl, j) ==
    (Column(al, bl, j) + CarryOut(al, bl, j - 1)) % Base

\* floor(a*b / (Base^j * 10^r)) for limb sequences al, bl of naturals, 0 <= r < 4.
MulShiftNat(al, bl, j, r) ==
    (HighPart(al, bl, j + 1, 4) + CarryOut(al, bl, j)) * (Base \div 10^r)
      + ProductLimb(al, bl, j) \div 10^r

\* The first decimal digit dropped by MulShiftNat(al, bl, j, r), for j >= 1.
DroppedDigit(al, bl, j, r) ==
    IF r = 0 THEN (ProductLimb(al, bl, j - 1) \div 1000) % 10
    ELSE (ProductLimb(al, bl, j) \div 10^(r - 1)) % 10

\* a*b / (Base^j * 10^r), rounded to the nearest integer, halves away from
\* zero; a an integer, bl the limbs of a natural number.
MulShift(a, bl, j, r) ==
    LET al == Limbs(Abs(a))
    IN  Sgn(a) * (MulShiftNat(al, bl, j, r)
                    + IF DroppedDigit(al, bl, j, r) >= 5 THEN 1 ELSE 0)

\* The product of two numbers of which one is in units of 10^-8: x * y / 10^8.
Mul8(x, y) == Sgn(y) * MulShift(x, Limbs(Abs(y)), 2, 0)

\* The quotient x / y of a number x by a pure number y > 0 in units of 10^-8:
\* x * 10^8 / y by long division, eight decimal digits after the integer part,
\* rounded on the remainder.
RECURSIVE Digits(_, _, _)
Digits(rem, y, k) ==
    IF k = 0 THEN 0
    ELSE ((rem * 10) \div y) * 10^(k - 1) + Digits((rem * 10) % y, y, k - 1)

RECURSIVE Remainder(_, _, _)
Remainder(rem, y, k) ==
    IF k = 0 THEN rem ELSE Remainder((rem * 10) % y, y, k - 1)

Div8(x, y) ==
    Sgn(x) * ((Abs(x) \div y) * 10^8 + Digits(Abs(x) % y, y, 8)
                + IF 2 * Remainder(Abs(x) % y, y, 8) >= y THEN 1 ELSE 0)

\* a^2 as a pair <<high, low>> in base 10^8.
Square(a) ==
    LET l == Limbs(a)
    IN  << HighPart(l, l, 2, 4) + CarryOut(l, l, 1),
           ProductLimb(l, l, 0) + Base * ProductLimb(l, l, 1) >>

\* The sum of two such pairs.
PairSum(p, q) ==
    << p[1] + q[1] + (p[2] + q[2]) \div 10^8, (p[2] + q[2]) % 10^8 >>

PairLeq(p, q) == p[1] < q[1] \/ (p[1] = q[1] /\ p[2] <= q[2])

\* The largest r in lo..hi with r^2 <= s (s a pair), by bisection.
RECURSIVE Bisect(_, _, _)
Bisect(lo, hi, s) ==
    IF lo >= hi THEN lo
    ELSE LET mid == lo + (hi - lo + 1) \div 2
         IN  IF PairLeq(Square(mid), s) THEN Bisect(mid, hi, s)
             ELSE Bisect(lo, mid - 1, s)

\* sqrt(a^2 + b^2), rounded to the nearest integer: f64 powi(2), +, sqrt.
\* With r the integer square root of s, the root is nearer r + 1 when
\* (2r + 1)^2 <= 4s.
Hypot(a, b) ==
    LET s == PairSum(Square(Abs(a)), Square(Abs(b)))
        r == Bisect(0, Abs(a) + Abs(b), s)
    IN  IF PairLeq(Square(2 * r + 1), PairSum(PairSum(s, s), PairSum(s, s)))
        THEN r + 1 ELSE r

-----------------------------------------------------------------------------
(* f64 values that may be NaN *)

Fin(v) == [nan |-> FALSE, v |-> v]

NaN == [nan |-> TRUE, v |-> 0]

-----------------------------------------------------------------------------
(* The constants of kma_grid.rs *)

\* f64::consts::PI, in Rad8.
PI == 314159265

\* 0.017453293 radian per degree, in units of 10^-9.
DEGREE_TO_RADIAN == 17453293

\* 57.29577951 degrees per radian: the limbs (base 10^4) of 5729577951, the
\* constant in units of 10^-8.
RADIAN_TO_DEGREE == << 7951, 2957, 57 >>

\* degrees (Deg6) * DEGREE_TO_RADIAN, in Rad8.
ToRadian(deg) == MulShift(deg, Limbs(DEGREE_TO_RADIAN), 1, 3)

\* radians (Rad8) * RADIAN_TO_DEGREE, in Deg6.
ToDegree(rad) == MulShift(rad, RADIAN_TO_DEGREE, 2, 2)

\* A whole number of degrees, in Deg6.
Degrees(k) == k * 10^6

\* 0.5 * v.
Half(v) == Mul8(v, 50000000)

\* f64::consts::PI * 0.25, f64::consts::PI * 0.5, 2.0 * f64::consts::PI.
QuarterPi == Mul8(PI, 25000000)

HalfPi == Half(PI)

TwoPi == 2 * PI

STANDARD_PARALLEL1 == ToRadian(Degrees(30))

STANDARD_PARALLEL2 == ToRadian(Degrees(60))

REFERENCE_LONGITUDE == ToRadian(Degrees(126))

REFERENCE_LATITUDE == ToRadian(Degrees(38))

REFERENCE_X == 43

REFERENCE_Y == 136

\* A whole number of cells as a grid length (`as f64`), in Cell4.
Cells(k) == k * 10^4

-----------------------------------------------------------------------------
(* The floating-point library, tabulated *)

\* BEGIN TABLES
\* EARTH_RADIUS_IN_GRID * f / tan(a).powf(n) (Cell4) at the angle a (Rad8).
RhoTable ==
       (872662 :> 679640302)
    @@ (78539816 :> 22846764)
    @@ (95993109 :> 17704110)
    @@ (104719756 :> 15421215)
    @@ (107337749 :> 14758115)
    @@ (107337750 :> 14758114)
    @@ (111701073 :> 13667777)
    @@ (116064396 :> 12589414)
    @@ (130899695 :> 8903443)
    @@ (156206970 :> 768016)

\* t.sin() (Unit8) at the angle t (Rad8).
SinTable ==
       (-1123884923 :> 97055430)
    @@ (-899207848 :> -41932302)
    @@ (-899082964 :> -42045643)
    @@ (-674530773 :> -44584891)
    @@ (-674405889 :> -44473071)
    @@ (-674405876 :> -44473060)
    @@ (-674281006 :> -44361183)
    @@ (-674280993 :> -44361172)
    @@ (-452101717 :> 98174423)
    @@ (-449728814 :> 97695488)
    @@ (-449603930 :> 97668755)
    @@ (-449603918 :> 97668753)
    @@ (-449479047 :> 97641871)
    @@ (-449479034 :> 97641868)
    @@ (-448379996 :> 97398710)
    @@ (-443359419 :> 96138781)
    @@ (-227299759 :> -76342224)
    @@ (-224926855 :> -77853247)
    @@ (-224926842 :> -77853255)
    @@ (-224801972 :> -77931563)
    @@ (-224801959 :> -77931571)
    @@ (-224677088 :> -78009758)
    @@ (-224677075 :> -78009767)
    @@ (-224677062 :> -78009775)
    @@ (-223578037 :> -78692663)
    @@ (-218557460 :> -81690135)
    @@ (-2497800 :> -2497540)
    @@ (-124896 :> -124896)
    @@ (-124884 :> -124884)
    @@ (-13 :> -13)
    @@ (0 :> 0)
    @@ (13 :> 13)
    @@ (124884 :> 124884)
    @@ (124896 :> 124896)
    @@ (1223922 :> 1223891)
    @@ (6244499 :> 6240442)
    @@ (222304159 :> 79472299)
    @@ (224677062 :> 78009775)
    @@ (224677075 :> 78009767)
    @@ (224677088 :> 78009758)
    @@ (224801959 :> 77931571)
    @@ (224801972 :> 77931563)
    @@ (224801978 :> 77931559)
    @@ (224926842 :> 77853255)
    @@ (224926855 :> 77853247)
    @@ (226025881 :> 77158805)
    @@ (231046457 :> 73869222)
    @@ (447106118 :> -97102150)
    @@ (449479034 :> -97641868)
    @@ (449479047 :> -97641871)
    @@ (449603918 :> -97668753)
    @@ (449603930 :> -97668755)
    @@ (449603937 :> -97668757)
    @@ (449728814 :> -97695488)
    @@ (450827840 :> -97924165)
    @@ (455848416 :> -98818001)
    @@ (674280993 :> 44361172)
    @@ (674281006 :> 44361183)
    @@ (674405889 :> 44473071)
    @@ (674405896 :> 44473078)
    @@ (674530773 :> 44584891)
    @@ (899082964 :> 42045643)
    @@ (899207848 :> 41932302)
    @@ (899207855 :> 41932295)
    @@ (1123884923 :> -97055430)
    @@ (1124009813 :> -97025271)

\* t.cos() (Unit8) at the angle t (Rad8).
CosTable ==
       (-1123884923 :> 24088242)
    @@ (-899207848 :> -90783710)
    @@ (-899082964 :> -90731273)
    @@ (-674530773 :> 89510823)
    @@ (-674405889 :> 89566433)
    @@ (-674405876 :> 89566439)
    @@ (-674281006 :> 89621902)
    @@ (-674280993 :> 89621908)
    @@ (-452101717 :> -19020584)
    @@ (-449728814 :> -21344595)
    @@ (-449603930 :> -21466584)
    @@ (-449603918 :> -21466596)
    @@ (-449479047 :> -21588539)
    @@ (-449479034 :> -21588552)
    @@ (-448379996 :> -22660347)
    @@ (-443359419 :> -27519717)
    @@ (-227299759 :> -64589974)
    @@ (-224926855 :> -62760433)
    @@ (-224926842 :> -62760423)
    @@ (-224801972 :> -62663159)
    @@ (-224801959 :> -62663149)
    @@ (-224677088 :> -62565786)
    @@ (-224677075 :> -62565776)
    @@ (-224677062 :> -62565766)
    @@ (-223578037 :> -61704658)
    @@ (-218557460 :> -57677741)
    @@ (-2497800 :> 99968807)
    @@ (-124896 :> 99999922)
    @@ (-124884 :> 99999922)
    @@ (-13 :> 100000000)
    @@ (0 :> 100000000)
    @@ (13 :> 100000000)
    @@ (124884 :> 99999922)
    @@ (124896 :> 99999922)
    @@ (1223922 :> 99992510)
    @@ (6244499 :> 99805095)
    @@ (222304159 :> -60697230)
    @@ (224677062 :> -62565766)
    @@ (224677075 :> -62565776)
    @@ (224677088 :> -62565786)
    @@ (224801959 :> -62663149)
    @@ (224801972 :> -62663159)
    @@ (224801978 :> -62663164)
    @@ (224926842 :> -62760423)
    @@ (224926855 :> -62760433)
    @@ (226025881 :> -63612253)
    @@ (231046457 :> -67404288)
    @@ (447106118 :> -23899216)
    @@ (449479034 :> -21588552)
    @@ (449479047 :> -21588539)
    @@ (449603918 :> -21466596)
    @@ (449603930 :> -21466584)
    @@ (449603937 :> -21466577)
    @@ (449728814 :> -21344595)
    @@ (450827840 :> -20269628)
    @@ (455848416 :> -15329796)
    @@ (674280993 :> 89621908)
    @@ (674281006 :> 89621902)
    @@ (674405889 :> 89566433)
    @@ (674405896 :> 89566430)
    @@ (674530773 :> 89510823)
    @@ (899082964 :> -90731273)
    @@ (899207848 :> -90783710)
    @@ (899207855 :> -90783713)
    @@ (1123884923 :> 24088242)
    @@ (1124009813 :> 24209436)

\* (EARTH_RADIUS_IN_GRID * f / ra).powf(1.0 / n).atan() (Rad8) at ra (Cell4).
AtanPowfTable ==
       (11117777 :> 122040463)
    @@ (11117781 :> 122040447)
    @@ (11119077 :> 122035194)
    @@ (11168194 :> 121836110)
    @@ (11197777 :> 121716175)
    @@ (11197781 :> 121716158)
    @@ (11199067 :> 121710944)
    @@ (11247836 :> 121513181)
    @@ (11319976 :> 121220555)
    @@ (11398557 :> 120901689)
    @@ (11406466 :> 120869589)
    @@ (11435997 :> 120749727)
    @@ (11445824 :> 120709837)
    @@ (11484455 :> 120553013)
    @@ (12197777 :> 117655035)
    @@ (12199105 :> 117649639)
    @@ (12202508 :> 117635812)
    @@ (12392815 :> 116862692)
    @@ (12467777 :> 116558250)
    @@ (12467781 :> 116558233)
    @@ (12468936 :> 116553543)
    @@ (12469718 :> 116550367)
    @@ (12470921 :> 116545482)
    @@ (12477777 :> 116517642)
    @@ (12477781 :> 116517625)
    @@ (12477877 :> 116517235)
    @@ (12478262 :> 116515672)
    @@ (12478679 :> 116513979)
    @@ (12478935 :> 116512939)
    @@ (12479075 :> 116512371)
    @@ (12479716 :> 116509768)
    @@ (12480918 :> 116504887)
    @@ (12490337 :> 116466640)
    @@ (12492194 :> 116459099)
    @@ (12497777 :> 116436429)
    @@ (12497781 :> 116436413)
    @@ (12498933 :> 116431735)
    @@ (12500297 :> 116426197)
    @@ (12502760 :> 116416196)
    @@ (12506695 :> 116400218)
    @@ (12511647 :> 116380111)
    @@ (12512756 :> 116375609)
    @@ (12516208 :> 116361593)
    @@ (12526169 :> 116321149)
    @@ (12542648 :> 116254244)
    @@ (12549516 :> 116226361)
    @@ (12559451 :> 116186028)
    @@ (12587777 :> 116071040)
    @@ (12588671 :> 116067411)
    @@ (12592582 :> 116051535)
    @@ (12646733 :> 115831751)
    @@ (12648413 :> 115824933)
    @@ (12656592 :> 115791741)
    @@ (12658271 :> 115784927)
    @@ (12668505 :> 115743397)
    @@ (12673726 :> 115722211)
    @@ (12677986 :> 115704925)
    @@ (12679015 :> 115700749)
    @@ (12695295 :> 115634691)
    @@ (12725878 :> 115510610)
    @@ (12733677 :> 115478971)
    @@ (12755271 :> 115391374)
    @@ (12787284 :> 115261528)
    @@ (12871215 :> 114921200)
    @@ (12871219 :> 114921184)
    @@ (12872338 :> 114916647)
    @@ (12914789 :> 114744575)
    @@ (12951215 :> 114596957)
    @@ (12951219 :> 114596941)
    @@ (12952331 :> 114592435)
    @@ (12994521 :> 114421501)
    @@ (13046267 :> 114211911)
    @@ (13121382 :> 113907796)
    @@ (13125200 :> 113892342)
    @@ (13199866 :> 113590212)
    @@ (13398171 :> 112788630)
    @@ (13657777 :> 111741362)
    @@ (13657781 :> 111741346)
    @@ (13658835 :> 111737100)
    @@ (13664240 :> 111715324)
    @@ (13667777 :> 111701074)
    @@ (13667781 :> 111701058)
    @@ (13668834 :> 111696816)
    @@ (13698849 :> 111575918)
    @@ (13708819 :> 111535767)
    @@ (13822871 :> 111076772)
    @@ (13832752 :> 111037033)
    @@ (13846896 :> 110980157)
    @@ (13893789 :> 110791657)
    @@ (13903619 :> 110752155)
    @@ (14221215 :> 109478428)
    @@ (14221219 :> 109478412)
    @@ (14222231 :> 109474362)
    @@ (14222917 :> 109471616)
    @@ (14223971 :> 109467398)
    @@ (14231215 :> 109438407)
    @@ (14231219 :> 109438391)
    @@ (14231303 :> 109438054)
    @@ (14231640 :> 109436706)
    @@ (14232005 :> 109435245)
    @@ (14232230 :> 109434345)
    @@ (14242229 :> 109394333)
    @@ (14243858 :> 109387815)
    @@ (14251215 :> 109358380)
    @@ (14251219 :> 109358364)
    @@ (14252229 :> 109354323)
    @@ (14253125 :> 109350738)
    @@ (14256577 :> 109336928)
    @@ (14260665 :> 109320574)
    @@ (14263694 :> 109308458)
    @@ (14290582 :> 109200922)
    @@ (14292930 :> 109191533)
    @@ (14378364 :> 108850124)
    @@ (14379842 :> 108844221)
    @@ (14388255 :> 108810624)
    @@ (14389732 :> 108804726)
    @@ (14403329 :> 108750436)
    @@ (14407983 :> 108731857)
    @@ (14409512 :> 108725753)
    @@ (14422312 :> 108674660)
    @@ (14448026 :> 108572047)
    @@ (14456109 :> 108539799)
    @@ (14477556 :> 108454254)
    @@ (14759915 :> 107330601)
    @@ (14761215 :> 107325439)
    @@ (14762312 :> 107321083)
    @@ (14912895 :> 106723926)
    @@ (15411215 :> 104759002)
    @@ (15411218 :> 104758990)
    @@ (15412153 :> 104755320)
    @@ (15421215 :> 104719758)
    @@ (15421218 :> 104719746)
    @@ (15422152 :> 104716081)
    @@ (15447626 :> 104616147)
    @@ (15457602 :> 104577025)
    @@ (15557713 :> 104184858)
    @@ (15567619 :> 104146095)
    @@ (15620757 :> 103938299)
    @@ (15630623 :> 103899743)

\* y.atan2(x) (Rad8) at << y, x >> (Cell4).
Atan2Table ==
       (<< 11117777, 0 >> :> 157079633)
    @@ (<< 11117777, 10000 >> :> 156989687)
    @@ (<< 11117777, 170000 >> :> 155550669)
    @@ (<< 11117777, 1060000 >> :> 147574086)
    @@ (<< 11117777, 2130000 >> :> 138150499)
    @@ (<< 11117777, 2550000 >> :> 134533359)
    @@ (<< 11197777, 0 >> :> 157079633)
    @@ (<< 11197777, 10000 >> :> 156990329)
    @@ (<< 11197777, 170000 >> :> 155561591)
    @@ (<< 11197777, 1060000 >> :> 147641592)
    @@ (<< 11197777, 2130000 >> :> 138282560)
    @@ (<< 11197777, 2550000 >> :> 134689088)
    @@ (<< 11237777, 2120000 >> :> 138433824)
    @@ (<< 11247777, 2120000 >> :> 138450020)
    @@ (<< 12167777, 920000 >> :> 149533038)
    @@ (<< 12197777, 0 >> :> 157079633)
    @@ (<< 12197777, 180000 >> :> 155604061)
    @@ (<< 12197777, 2190000 >> :> 139314811)
    @@ (<< 12467777, 0 >> :> 157079633)
    @@ (<< 12467777, 10000 >> :> 156999426)
    @@ (<< 12467777, 170000 >> :> 155716202)
    @@ (<< 12467777, 220000 >> :> 155315267)
    @@ (<< 12467777, 280000 >> :> 154834221)
    @@ (<< 12467777, 1060000 >> :> 148598112)
    @@ (<< 12467777, 1100000 >> :> 148279675)
    @@ (<< 12467777, 1430000 >> :> 145659967)
    @@ (<< 12467777, 2120000 >> :> 140236891)
    @@ (<< 12467777, 2130000 >> :> 140158949)
    @@ (<< 12467777, 2550000 >> :> 136905147)
    @@ (<< 12477777, 0 >> :> 157079633)
    @@ (<< 12477777, 10000 >> :> 156999490)
    @@ (<< 12477777, 50000 >> :> 156678922)
    @@ (<< 12477777, 110000 >> :> 156198088)
    @@ (<< 12477777, 150000 >> :> 155877553)
    @@ (<< 12477777, 170000 >> :> 155717295)
    @@ (<< 12477777, 180000 >> :> 155637168)
    @@ (<< 12477777, 220000 >> :> 155316681)
    @@ (<< 12477777, 280000 >> :> 154836020)
    @@ (<< 12477777, 560000 >> :> 152594663)
    @@ (<< 12477777, 600000 >> :> 152274785)
    @@ (<< 12477777, 750000 >> :> 151076170)
    @@ (<< 12477777, 790000 >> :> 150756816)
    @@ (<< 12477777, 850000 >> :> 150278030)
    @@ (<< 12477777, 920000 >> :> 149719842)
    @@ (<< 12477777, 1100000 >> :> 148286691)
    @@ (<< 12477777, 1430000 >> :> 145669040)
    @@ (<< 12477777, 2120000 >> :> 140250136)
    @@ (<< 12477777, 2130000 >> :> 140172253)
    @@ (<< 12477777, 2190000 >> :> 139705389)
    @@ (<< 12477777, 2220000 >> :> 139472242)
    @@ (<< 12477777, 2250000 >> :> 139239289)
    @@ (<< 12477777, 2340000 >> :> 138541611)
    @@ (<< 12477777, 2540000 >> :> 136997822)
    @@ (<< 12497777, 0 >> :> 157079633)
    @@ (<< 12497777, 10000 >> :> 156999618)
    @@ (<< 12497777, 170000 >> :> 155719475)
    @@ (<< 12497777, 1060000 >> :> 148618375)
    @@ (<< 12497777, 2130000 >> :> 140198798)
    @@ (<< 12497777, 2550000 >> :> 136952275)
    @@ (<< 12567777, 790000 >> :> 150801975)
    @@ (<< 12587777, 0 >> :> 157079633)
    @@ (<< 12587777, 150000 >> :> 155888057)
    @@ (<< 12587777, 2250000 >> :> 139391944)
    @@ (<< 12871215, 0 >> :> 157079633)
    @@ (<< 12871215, 10000 >> :> 157001940)
    @@ (<< 12871215, 170000 >> :> 155758933)
    @@ (<< 12871215, 1060000 >> :> 148862745)
    @@ (<< 12871215, 2130000 >> :> 140679707)
    @@ (<< 12871215, 2550000 >> :> 137521248)
    @@ (<< 12951215, 0 >> :> 157079633)
    @@ (<< 12951215, 10000 >> :> 157002420)
    @@ (<< 12951215, 170000 >> :> 155767090)
    @@ (<< 12951215, 1060000 >> :> 148913275)
    @@ (<< 12951215, 2130000 >> :> 140779220)
    @@ (<< 12951215, 2550000 >> :> 137639031)
    @@ (<< 13227777, 2130000 >> :> 141114202)
    @@ (<< 13637777, 850000 >> :> 150854997)
    @@ (<< 13657777, 0 >> :> 157079633)
    @@ (<< 13657777, 10000 >> :> 157006414)
    @@ (<< 13657777, 170000 >> :> 155834985)
    @@ (<< 13657777, 1060000 >> :> 149334014)
    @@ (<< 13657777, 2130000 >> :> 141608747)
    @@ (<< 13657777, 2550000 >> :> 138621474)
    @@ (<< 13667777, 0 >> :> 157079633)
    @@ (<< 13667777, 10000 >> :> 157006468)
    @@ (<< 13667777, 170000 >> :> 155835895)
    @@ (<< 13667777, 1060000 >> :> 149339658)
    @@ (<< 13667777, 2130000 >> :> 141619886)
    @@ (<< 13667777, 2220000 >> :> 140977669)
    @@ (<< 13667777, 2550000 >> :> 138634674)
    @@ (<< 14221215, 0 >> :> 157079633)
    @@ (<< 14221215, 10000 >> :> 157009315)
    @@ (<< 14221215, 170000 >> :> 155884292)
    @@ (<< 14221215, 220000 >> :> 155532772)
    @@ (<< 14221215, 280000 >> :> 155110998)
    @@ (<< 14221215, 1060000 >> :> 149639737)
    @@ (<< 14221215, 1100000 >> :> 149360081)
    @@ (<< 14221215, 1430000 >> :> 147057919)
    @@ (<< 14221215, 2120000 >> :> 142281305)
    @@ (<< 14221215, 2130000 >> :> 142212523)
    @@ (<< 14221215, 2550000 >> :> 139337223)
    @@ (<< 14231215, 0 >> :> 157079633)
    @@ (<< 14231215, 10000 >> :> 157009365)
    @@ (<< 14231215, 50000 >> :> 156728294)
    @@ (<< 14231215, 110000 >> :> 156306699)
    @@ (<< 14231215, 150000 >> :> 156025651)
    @@ (<< 14231215, 170000 >> :> 155885132)
    @@ (<< 14231215, 560000 >> :> 153146650)
    @@ (<< 14231215, 600000 >> :> 152866044)
    @@ (<< 14231215, 790000 >> :> 151534147)
    @@ (<< 14231215, 850000 >> :> 151113934)
    @@ (<< 14231215, 2120000 >> :> 142291552)
    @@ (<< 14231215, 2130000 >> :> 142222817)
    @@ (<< 14231215, 2220000 >> :> 141604841)
    @@ (<< 14231215, 2250000 >> :> 141399111)
    @@ (<< 14231215, 2340000 >> :> 140782730)
    @@ (<< 14231215, 2540000 >> :> 139417521)
    @@ (<< 14251215, 0 >> :> 157079633)
    @@ (<< 14251215, 10000 >> :> 157009463)
    @@ (<< 14251215, 170000 >> :> 155886809)
    @@ (<< 14251215, 1060000 >> :> 149655341)
    @@ (<< 14251215, 2130000 >> :> 142243362)
    @@ (<< 14251215, 2550000 >> :> 139373795)
    @@ (<< 14731215, 920000 >> :> 150842491)
    @@ (<< 14751215, 2190000 >> :> 142341053)
    @@ (<< 14761215, 0 >> :> 157079633)
    @@ (<< 14761215, 180000 >> :> 155860281)
    @@ (<< 15411215, 0 >> :> 157079633)
    @@ (<< 15411215, 10000 >> :> 157014745)
    @@ (<< 15411215, 170000 >> :> 155976585)
    @@ (<< 15411215, 1060000 >> :> 150212340)
    @@ (<< 15411215, 2130000 >> :> 143345539)
    @@ (<< 15411215, 2550000 >> :> 140681812)
    @@ (<< 15421215, 0 >> :> 157079633)
    @@ (<< 15421215, 10000 >> :> 157014787)
    @@ (<< 15421215, 170000 >> :> 155977300)
    @@ (<< 15421215, 1060000 >> :> 150216780)
    @@ (<< 15421215, 2130000 >> :> 143354333)
    @@ (<< 15421215, 2550000 >> :> 140692256)
\* END TABLES

\* EARTH_RADIUS_IN_GRID * f / tan(a).powf(n), in Cell4, with n and f the
\* constants of get_constants.  The tangent is negative below 0 and beyond
\* pi/2, and powf of a negative base to the exponent n (not a whole number)
\* is NaN.  (a = 0, where the quotient is infinite, is no argument of the
\* model: no latitude it draws leads there.)
Rho(a) == IF a < 0 \/ a > HalfPi THEN NaN ELSE Fin(RhoTable[a])

\* sin and cos of an angle (Rad8), in Unit8.
Sin(t) == SinTable[t]

Cos(t) == CosTable[t]

\* (EARTH_RADIUS_IN_GRID * f / ra).powf(1.0 / n).atan(), in Rad8; for ra = 0
\* the quotient and its power are +infinity, whose arctangent is pi/2.
AtanPowf(ra) == IF ra = 0 THEN HalfPi ELSE AtanPowfTable[ra]

\* y.atan2(x): the angle of the point (x, y) from the positive x axis, in Rad8.
Atan2(y, x) == Atan2Table[<< y, x >>]

-----------------------------------------------------------------------------
(* LccConstants::get_constants *)

\* n: ln(cos(SP1) / cos(SP2)) / ln(tan(pi/4 + SP2/2) / tan(pi/4 + SP1/2)),
\* 0.7155668631..., in Unit8.
LccN == 71556686

\* f: tan(pi/4 + SP1/2).powf(n) * cos(SP1) / n, 1.7930256080..., in Unit8.
LccF == 179302561

\* get_constants with rho_zero taken at the first standard parallel instead
\* of the reference latitude.
get_constants_parallel ==
    [ n        |-> LccN,
      f        |-> LccF,
      rho_zero |-> Rho(QuarterPi + Half(STANDARD_PARALLEL1)) ]

get_constants ==
    [ n        |-> LccN,
      f        |-> LccF,
      rho_zero |-> Rho(QuarterPi + Half(REFERENCE_LATITUDE)) ]

-----------------------------------------------------------------------------
(* KmaGrid::from_gcs *)

\* f64::round of a grid length: the nearest whole number of cells, halves away
\* from zero.
Round(v) == Sgn(v) * ((Abs(v) + 5000) \div 10^4)

\* `as u8` of a rounded f64: NaN is 0, and a value out of the range of u8 is
\* the nearest end of the range (the cast saturates).
AsU8(r) ==
    IF r.nan THEN 0
    ELSE IF r.v < 0 THEN 0
    ELSE IF r.v > 255 THEN 255
    ELSE r.v

\* The block computing theta with its second branch left out.
Theta_upper_only(raw_theta) ==
    IF raw_theta > PI THEN raw_theta - TwoPi
    ELSE raw_theta

\* The block computing theta from raw_theta.
Theta(raw_theta) ==
    IF raw_theta > PI THEN raw_theta - TwoPi
    ELSE IF raw_theta < -PI THEN raw_theta + TwoPi
    ELSE raw_theta

\* rho * (theta * n).sin() + (REFERENCE_X as f64), rounded.
ProjectX(rho, theta, c) ==
    IF rho.nan THEN NaN
    ELSE Fin(Round(Mul8(rho.v, Sin(Mul8(theta, c.n))) + Cells(REFERENCE_X)))

\* The y of the projection with the sine for the cosine.
ProjectY_sin(rho, theta, c) ==
    IF rho.nan \/ c.rho_zero.nan THEN NaN
    ELSE Fin(Round(c.rho_zero.v - Mul8(rho.v, Sin(Mul8(theta, c.n)))
                     + Cells(REFERENCE_Y)))

\* rho_zero - rho * (theta * n).cos() + (REFERENCE_Y as f64), rounded.
ProjectY(rho, theta, c) ==
    IF rho.nan \/ c.rho_zero.nan THEN NaN
    ELSE Fin(Round(c.rho_zero.v - Mul8(rho.v, Cos(Mul8(theta, c.n)))
                     + Cells(REFERENCE_Y)))

\* from_gcs(longitude, latitude), the arguments in Deg6: the grid cell (x, y)
\* returned, with the locals rho, raw_theta, theta and the rounded values
\* before the cast (rx, ry).
from_gcs(longitude, latitude) ==
    LET c         == get_constants
        rho       == Rho(QuarterPi + ToRadian(Half(latitude)))
        raw_theta == ToRadian(longitude) - REFERENCE_LONGITUDE
        theta     == Theta(raw_theta)
        rx        == ProjectX(rho, theta, c)
        ry        == ProjectY(rho, theta, c)
    IN  [ rho |-> rho, raw_theta |-> raw_theta, theta |-> theta,
          rx |-> rx, ry |-> ry, x |-> AsU8(rx), y |-> AsU8(ry) ]

-----------------------------------------------------------------------------
(* KmaGrid::to_gcs *)

\* a - b in u8 when it does not panic: the difference, modulo 2^8 when a < b
\* (a build without overflow checks wraps).
WrappingSub(a, b) == (a - b) % 256

\* Whether a - b in u8 panics: a < b in a build with overflow checks.
SubPanics(a, b, checks) == checks /\ a < b

\* to_gcs(self) in a build with (checks) or without overflow checks: a panic,
\* or the pair (longitude, latitude) in Deg6 with the locals xn, yn, ra, theta.
to_gcs(self, checks) ==
    IF SubPanics(self.x, REFERENCE_X, checks)
         \/ SubPanics(self.y, REFERENCE_Y, checks)
    THEN [ panic |-> TRUE ]
    ELSE
    LET c     == get_constants
        xn    == Cells(WrappingSub(self.x, REFERENCE_X))
        yn    == c.rho_zero.v - Cells(WrappingSub(self.y, REFERENCE_Y))
        ra    == Hypot(xn, yn)
        latitude_radian == 2 * AtanPowf(ra) - HalfPi
        theta == IF Abs(c.n) = 0 THEN 0
                 ELSE IF Abs(yn) = 0 THEN HalfPi
                 ELSE Atan2(yn, xn)
        longitude_radian == Div8(theta, c.n) + REFERENCE_LONGITUDE
    IN  [ panic |-> FALSE, xn |-> xn, yn |-> yn, ra |-> ra, theta |-> theta,
          longitude |-> ToDegree(longitude_radian),
          latitude  |-> ToDegree(latitude_radian) ]

-----------------------------------------------------------------------------
(* The program: a caller of the conversions *)

\* The longitude whose raw_theta is -PI (-53.999995 degrees).
LonAtMinusPi ==
    CHOOSE d \in -54000000 .. -53999900 : ToRadian(d) - REFERENCE_LONGITUDE = -PI

\* The longitudes and latitudes (Deg6) a caller converts.
Longitudes ==
    { 126000000, 124000000, 126980000, 131000000,   \* on the grid
      305900000, -53900000,                         \* raw_theta = +-179.9 degrees
      306100000, -54100000,                         \* raw_theta = +-180.1 degrees
      LonAtMinusPi,                                 \* raw_theta = -PI
      486000000, -234000000,                        \* one turn from 126 degrees
      665900000, -413900000, 666000000 }            \* a turn and a half

Latitudes ==
    { Degrees(k) : k \in { -95, -90, -89, 0, 20, 33, 38, 43, 60, 89, 90, 95 } }

\* The cells a caller builds itself (KmaGrid { x, y }).
GridXs == { 0, 42, 43, 44, 60, 149 }

GridYs == { 0, 127, 135, 136, 137, 253 }

\* What a caller starts from: a geographic point or the indices of a cell.
Inputs ==
    [ kind : { "gcs" }, longitude : Longitudes, latitude : Latitudes ]
      \cup [ kind : { "cell" }, x : GridXs, y : GridYs ]

VARIABLES
    overflow_checks,  \* the build: with (debug) or without (release) overflow checks
    input,            \* what the caller starts from
    consts,           \* the LccConstants last returned by get_constants
    grid,             \* the KmaGrid the caller holds, NoGrid when it holds none
    last              \* the last conversion: its arguments, locals and result

vars == << overflow_checks, input, consts, grid, last >>

NoGrid == [ x |-> -1, y |-> -1 ]

NoCall == [ op |-> "none" ]

NoConsts == [ n |-> 0, f |-> 0, rho_zero |-> NaN ]

Init ==
    /\ overflow_checks \in BOOLEAN
    /\ input \in Inputs
    /\ consts = NoConsts
    /\ grid = NoGrid
    /\ last = NoCall

\* LccConstants::get_constants()
GetConstants ==
    /\ consts' = get_constants
    /\ UNCHANGED << overflow_checks, input, grid, last >>

\* KmaGrid::from_gcs(longitude, latitude) on the caller's point
FromGcs ==
    /\ input.kind = "gcs"
    /\ last = NoCall
    /\ LET r == from_gcs(input.longitude, input.latitude)
       IN  /\ last' = [ op |-> "from_gcs", longitude |-> input.longitude,
                        latitude |-> input.latitude, r |-> r ]
           /\ grid' = [ x |-> r.x, y |-> r.y ]
    /\ consts' = get_constants
    /\ UNCHANGED << overflow_checks, input >>

\* KmaGrid { x, y } of the caller's indices
NewGrid ==
    /\ input.kind = "cell"
    /\ last = NoCall
    /\ grid' = [ x |-> input.x, y |-> input.y ]
    /\ last' = [ op |-> "new" ]
    /\ UNCHANGED << overflow_checks, input, consts >>

\* grid.to_gcs(): the grid is moved into the call
ToGcs ==
    /\ grid # NoGrid
    /\ last' = [ op |-> "to_gcs", self |-> grid,
                 r |-> to_gcs(grid, overflow_checks) ]
    /\ grid' = NoGrid
    /\ consts' = get_constants
    /\ UNCHANGED << overflow_checks, input >>

Next ==
    \/ GetConstants
    \/ FromGcs
    \/ NewGrid
    \/ ToGcs

Spec == Init /\ [][Next]_vars

-----------------------------------------------------------------------------
(* The properties *)

\* The last conversion is from_gcs(126.0, 38.0).
AtReference ==
    /\ last.op = "from_gcs"
    /\ last.longitude = Degrees(126)
    /\ last.latitude = Degrees(38)

\* A rounded value that `as u8` does not represent.
OutOfU8(r) == ~r.nan /\ (r.v < 0 \/ r.v > 255)

\* A cell of the regional grid: x in 0..149, y in 0..253.
OnGrid(g) == g.x \in 0 .. 149 /\ g.y \in 0 .. 253

\* C1: from_gcs(126.0, 38.0) returns exactly the cell (43, 136).
C1_ReferenceCell == AtReference => last.r.x = 43 /\ last.r.y = 136

\* from_gcs(126.0, 38.0) has returned (43, 136), with theta = 0 and
\* rho = rho_zero.
C1_Witness ==
    /\ AtReference
    /\ last.r.theta = 0
    /\ last.r.rho = consts.rho_zero
    /\ grid = [ x |-> 43, y |-> 136 ]

\* C2: to_gcs of the cell returned by from_gcs(126.0, 38.0) returns
\* (126.0, 38.0) up to rounding error (here: within 10^-5 degree).
C2_RoundTripAtReference ==
    ( /\ last.op = "to_gcs"
      /\ input.kind = "gcs"
      /\ input.longitude = Degrees(126)
      /\ input.latitude = Degrees(38) )
    => /\ ~last.r.panic
       /\ Abs(last.r.longitude - Degrees(126)) <= 10
       /\ Abs(last.r.latitude - Degrees(38)) <= 10

\* C3: every cell returned by from_gcs has x in 0..149 and y in 0..253.
C3_CellOnGrid == last.op = "from_gcs" => OnGrid(last.r)

\* C4: when the rounded projected x or y is outside 0..255, from_gcs fails:
\* it returns no cell.
C4_OutOfBoundsFails ==
    (last.op = "from_gcs" /\ (OutOfU8(last.r.rx) \/ OutOfU8(last.r.ry)))
    => grid = NoGrid

\* C5: from_gcs with a latitude outside [-90, 90] degrees is rejected: it
\* returns no cell.
C5_InvalidLatitudeRejected ==
    (last.op = "from_gcs" /\ Abs(last.latitude) > Degrees(90))
    => grid = NoGrid

\* How near the boundary "just below +pi" and "just above -pi" are: 0.2 degree.
Window == ToRadian(200000)

JustBelowPi(raw_theta) == PI - Window < raw_theta /\ raw_theta < PI

JustAboveMinusPi(raw_theta) == -PI < raw_theta /\ raw_theta < -PI + Window

\* The longitudes drawn whose raw_theta is just above -pi.
AcrossBoundary ==
    { lon \in Longitudes : JustAboveMinusPi(ToRadian(lon) - REFERENCE_LONGITUDE) }

WithinOneTurn(raw_theta) == -3 * PI < raw_theta /\ raw_theta <= 3 * PI

C8_SignedDifferences ==
    (last.op = "to_gcs" /\ OnGrid(last.self))
    => /\ ~last.r.panic
       /\ last.r.xn = Cells(last.self.x - 43)
       /\ last.r.yn = consts.rho_zero.v - Cells(last.self.y - 136)

\* C10: for a cell of the grid, to_gcs returns (it does not panic), with
\* ra > 0 and yn # 0.
C10_InverseDefined ==
    (last.op = "to_gcs" /\ OnGrid(last.self))
    => /\ ~last.r.panic
       /\ last.r.ra > 0
       /\ last.r.yn # 0

=============================================================================
